---- MODULE Spec2Model ----
(***************************************************************************)
(* Model of src/src/apod.py (class Apod): one run of Apod.main fetches the  *)
(* APOD metadata, merges it into responses.json and downloads the images   *)
(* that are not yet in the image directory.  The file system (api key      *)
(* file, responses.json, image directory) and the HTTP traffic of the      *)
(* current run are part of the state.                                      *)
(***************************************************************************)
EXTENDS Integers, Sequences, FiniteSets, TLC

VARIABLES
    pc,                 \* position of Apod.main: the stage that runs next
    args,               \* the parameters main was called with
    api_key_file,       \* state of data/api_key.txt
    responses_file,     \* content of data/responses.json
    images_dir,         \* image directory: file name -> content
    response,           \* local `response` of main
    formatted_response, \* local `formatted_response` of main
    image_urls,         \* local `image_urls` of main
    images,             \* local `images` (list being built by get_images)
    idx,                \* loop position inside get_images / save_images
    raised,             \* the exception that ended the run, if any
    log,                \* HTTP requests, file writes and notable prints of the run
    before              \* file system as it was when the current call began

vars == <<pc, args, api_key_file, responses_file, images_dir, response,
          formatted_response, image_urls, images, idx, raised, log, before>>

(* Bounds *)
MaxBatch == 2       \* longest API payload list
MaxArchive == 2     \* longest pre-existing archive of the merge specification

None == "None"

Range(s) == {s[i] : i \in 1..Len(s)}

SeqsUpTo(S, n) == UNION {[1..k -> S] : k \in 0..n}

(***************************************************************************)
(* Data.  A URL is the sequence of its "/"-separated segments; a record is *)
(* a dict of the API.  `date` values stand for YYYY-MM-DD strings in their *)
(* lexicographic order.                                                    *)
(***************************************************************************)
UrlXA == <<"x", "a.jpg">>
UrlYA == <<"y", "a.jpg">>
UrlXB == <<"x", "b.jpg">>

Records ==
    { [date |-> 1, url |-> UrlXA],
      [date |-> 1, hdurl |-> UrlYA, url |-> UrlXB],
      [date |-> 2, hdurl |-> UrlXB],
      [date |-> 2],
      [url |-> UrlXA] }

Batches == SeqsUpTo(Records, MaxBatch)

(* os.path.split(url): everything before the last "/" and the last segment *)
os_path_split(url) == <<SubSeq(url, 1, Len(url) - 1), url[Len(url)]>>

(* variant: the existence test looks beside the image directory and never
   finds the file *)
os_path_exists_elsewhere(dir, image_name) == FALSE

(* os.path.exists(os.path.join(images_dir, image_name)); the directory is a
   map from the names of its files to their content *)
os_path_exists(dir, image_name) == image_name \in DOMAIN dir

(***************************************************************************)
(* get_response: the key file and the request URL                          *)
(***************************************************************************)
(* a line of the key file: its text and its trailing whitespace *)
KeyLine == [text |-> "DEMO_KEY", ws |-> "\n"]
BlankLine == [text |-> "", ws |-> "\n"]

ApiKeyFiles ==
    { [state |-> "absent"], [state |-> "unreadable"],
      [state |-> "file", lines |-> <<>>],
      [state |-> "file", lines |-> <<BlankLine>>],
      [state |-> "file", lines |-> <<KeyLine>>] }

rstrip(line) == line.text

(* Python truthiness of an optional string argument *)
Truthy(v) == v \notin {None, ""}

(* lines 83-88: the key is the first line of the key file, right-stripped *)
read_api_key(key_file) ==
    IF key_file.state = "absent"
      THEN [exc |-> "FileNotFoundError"]
    ELSE IF key_file.state = "unreadable"
      THEN [exc |-> "PermissionError"]
    ELSE IF Len(key_file.lines) = 0
      THEN [exc |-> "ValueError", msg |-> "No API Key set"]
    ELSE [exc |-> None, api_key |-> rstrip(key_file.lines[1])]

(* variant: `if` for each `elif`, every truthy parameter is appended *)
url_query_every_param(a) ==
    (IF Truthy(a.date) THEN << <<"date", a.date>> >> ELSE <<>>)
    \o (IF Truthy(a.start_date) THEN << <<"start_date", a.start_date>> >> ELSE <<>>)
    \o (IF Truthy(a.start_date) /\ Truthy(a.end_date)
          THEN << <<"end_date", a.end_date>> >> ELSE <<>>)
    \o (IF Truthy(a.count) THEN << <<"count", a.count>> >> ELSE <<>>)

(* lines 90-98: the query modifiers appended to the base URL, in order *)
url_query(a) ==
    IF Truthy(a.date) THEN << <<"date", a.date>> >>
    ELSE IF Truthy(a.start_date)
      THEN << <<"start_date", a.start_date>> >>
           \o (IF Truthy(a.end_date) THEN << <<"end_date", a.end_date>> >> ELSE <<>>)
    ELSE IF Truthy(a.count) THEN << <<"count", a.count>> >>
    ELSE <<>>

request_url(api_key, a) == [api_key |-> api_key, query |-> url_query(a)]

(***************************************************************************)
(* format_response: response.text is a JSON text, Python values carry      *)
(* their type.  A str is the sequence of its one-character strings.        *)
(***************************************************************************)
Chr(c) == [str |-> c]

ScalarTexts == {"null", "true", "42", "\"ab\"", "\"\""}

Payloads ==
    {[kind |-> "invalid"]}
    \cup {[kind |-> "object", val |-> r] : r \in Records}
    \cup {[kind |-> "array", val |-> b] : b \in Batches}
    \cup {[kind |-> "scalar", val |-> t] : t \in ScalarTexts}

(* json.loads(text) *)
json_loads(text) ==
    IF text.kind = "invalid" THEN [exc |-> "JSONDecodeError"]
    ELSE IF text.kind = "object"
      THEN [exc |-> None, value |-> [type |-> "dict", val |-> text.val]]
    ELSE IF text.kind = "array"
      THEN [exc |-> None, value |-> [type |-> "list", val |-> text.val]]
    ELSE IF text.val = "null"
      THEN [exc |-> None, value |-> [type |-> "NoneType"]]
    ELSE IF text.val = "true"
      THEN [exc |-> None, value |-> [type |-> "bool"]]
    ELSE IF text.val = "42"
      THEN [exc |-> None, value |-> [type |-> "int"]]
    ELSE IF text.val = "\"ab\""
      THEN [exc |-> None, value |-> [type |-> "str", val |-> <<Chr("a"), Chr("b")>>]]
    ELSE [exc |-> None, value |-> [type |-> "str", val |-> <<>>]]

(* lines 122-126 *)
format_response(text) ==
    LET query == json_loads(text) IN
    IF query.exc # None THEN query
    ELSE IF query.value.type = "dict"
      THEN [exc |-> None, value |-> [type |-> "list", val |-> <<query.value.val>>]]
    ELSE query

(***************************************************************************)
(* save_response: read, extend, sort by date, filter duplicates, write     *)
(***************************************************************************)
ArchiveAbsent == [kind |-> "absent"]
ArchiveEmpty == [kind |-> "empty"]
ArchiveCorrupt == [kind |-> "corrupt"]

(* json.dump(obj, file): the JSON document that json.load reads back *)
json_dump(obj) == [kind |-> "json", val |-> obj]

(* variant: an unparsable file is read as an empty archive *)
json_load_lenient(file) ==
    IF file.kind = "json" THEN [exc |-> None, value |-> file.val]
    ELSE [exc |-> None, value |-> <<>>]

(* json.load(file) of a file of non-zero size *)
json_load(file) ==
    IF file.kind = "json" THEN [exc |-> None, value |-> file.val]
    ELSE [exc |-> "JSONDecodeError"]

(* response["date"] of the sort key (line 142) *)
HasDate(r) == "date" \in DOMAIN r

(* the exception response["date"] raises on r *)
date_error(r) == IF "str" \in DOMAIN r THEN "TypeError" ELSE "KeyError"

(* variant: sort(reverse = True), latest date first *)
RECURSIVE sort_by_date_reversed(_)
sort_by_date_reversed(s) ==
    IF Len(s) = 0 THEN <<>>
    ELSE LET x == s[Len(s)]
             front == sort_by_date_reversed(SubSeq(s, 1, Len(s) - 1))
             k == Cardinality({i \in 1..Len(front) : front[i].date >= x.date})
         IN SubSeq(front, 1, k) \o <<x>> \o SubSeq(front, k + 1, Len(front))

(* list.sort(key = date): stable, elements of equal date keep their order *)
RECURSIVE sort_by_date(_)
sort_by_date(s) ==
    IF Len(s) = 0 THEN <<>>
    ELSE LET x == s[Len(s)]
             front == sort_by_date(SubSeq(s, 1, Len(s) - 1))
             k == Cardinality({i \in 1..Len(front) : front[i].date <= x.date})
         IN SubSeq(front, 1, k) \o <<x>> \o SubSeq(front, k + 1, Len(front))

(* variant: a response is compared with the last kept one only *)
RECURSIVE filter_adjacent_duplicates(_, _)
filter_adjacent_duplicates(s, filtered) ==
    IF Len(s) = 0 THEN filtered
    ELSE filter_adjacent_duplicates(Tail(s),
            IF Len(filtered) > 0 /\ Head(s) = filtered[Len(filtered)]
              THEN filtered ELSE Append(filtered, Head(s)))

(* variant: a response is a duplicate when its date is already kept *)
RECURSIVE filter_duplicate_dates(_, _)
filter_duplicate_dates(s, filtered) ==
    IF Len(s) = 0 THEN filtered
    ELSE filter_duplicate_dates(Tail(s),
            IF \E i \in 1..Len(filtered) : filtered[i].date = Head(s).date
              THEN filtered ELSE Append(filtered, Head(s)))

(* line 146: append each response that is not yet in the filtered list *)
RECURSIVE filter_duplicates(_, _)
filter_duplicates(s, filtered) ==
    IF Len(s) = 0 THEN filtered
    ELSE filter_duplicates(Tail(s),
            IF Head(s) \in Range(filtered) THEN filtered ELSE Append(filtered, Head(s)))

(* lines 134-152: the exception raised (None if none) and the file afterwards *)
save_response(file, fr) ==
    IF file.kind = "absent"
      THEN [exc |-> "FileNotFoundError", file |-> file]
    ELSE LET loaded == IF file.kind = "empty"
                         THEN [exc |-> None, value |-> <<>>]
                         ELSE json_load(file)
         IN
         IF loaded.exc # None
           THEN [exc |-> loaded.exc, file |-> file]
         ELSE IF fr.type \notin {"list", "str"}
           THEN [exc |-> "TypeError", file |-> file]
         ELSE LET past_responses == loaded.value \o fr.val
                  bad == {i \in 1..Len(past_responses) : ~HasDate(past_responses[i])}
              IN
              IF bad # {}
                THEN [exc |-> date_error(past_responses[CHOOSE i \in bad : \A j \in bad : i <= j]),
                      file |-> file]
              ELSE [exc |-> None,
                    file |-> json_dump(filter_duplicates(sort_by_date(past_responses), <<>>))]

(***************************************************************************)
(* get_image_urls                                                          *)
(***************************************************************************)
(* variant: `url` is looked up first, `hdurl` is the fallback *)
image_url_prefers_url(image_json) ==
    IF "url" \in DOMAIN image_json THEN [exc |-> None, value |-> image_json.url]
    ELSE IF "hdurl" \in DOMAIN image_json THEN [exc |-> None, value |-> image_json.hdurl]
    ELSE [exc |-> "KeyError"]

(* lines 168-171 *)
image_url(image_json) ==
    IF "hdurl" \in DOMAIN image_json THEN [exc |-> None, value |-> image_json.hdurl]
    ELSE IF "url" \in DOMAIN image_json THEN [exc |-> None, value |-> image_json.url]
    ELSE [exc |-> "KeyError"]

(* lines 165-175 *)
get_image_urls(fr) ==
    LET picked == [i \in 1..Len(fr.val) |-> image_url(fr.val[i])] IN
    IF \E i \in 1..Len(picked) : picked[i].exc # None
      THEN [exc |-> "KeyError"]
      ELSE [exc |-> None, value |-> [i \in 1..Len(picked) |-> picked[i].value]]

(***************************************************************************)
(* Apod.main as a state machine                                            *)
(***************************************************************************)
NoException == [exc |-> None]
Unset == [type |-> None]
NoResponse == [kind |-> None]

ArgNone == [date |-> None, start_date |-> None, end_date |-> None, count |-> None]

(* the calls of Apod.main made by __main__.py *)
CallerArgs ==
    { ArgNone,
      [ArgNone EXCEPT !.date = "2020-01-01"],
      [ArgNone EXCEPT !.start_date = "2020-01-01", !.end_date = "2020-01-02"],
      [ArgNone EXCEPT !.start_date = "2020-01-01"],
      [ArgNone EXCEPT !.count = "2"] }

Snapshot == [responses_file |-> responses_file, images_dir |-> images_dir]

ApiGet(url) == [op |-> "GET", what |-> "api", url |-> url]
ImageGet(url) == [op |-> "GET", what |-> "image", url |-> url]
ArchiveWrite == [op |-> "write", what |-> "archive"]
ImageWrite(name) == [op |-> "write", what |-> "image", name |-> name]
NothingToSave == [op |-> "print", what |-> "Nothing to save"]

(* the bytes served at an image URL *)
Content(url) == [from |-> url]

Locals0 ==
    /\ response = NoResponse
    /\ formatted_response = Unset
    /\ image_urls = <<>>
    /\ images = <<>>
    /\ idx = 0
    /\ raised = NoException
    /\ log = <<>>

Init ==
    /\ pc = "idle"
    /\ args = ArgNone
    /\ api_key_file \in ApiKeyFiles
    /\ responses_file \in {ArchiveAbsent, ArchiveEmpty, ArchiveCorrupt}
    /\ images_dir = <<>>
    /\ Locals0
    /\ before = Snapshot

(* main ends: by an exception (caught by main at lines 36-39, or not) or by
   running to its last line *)
Fail(stage, exc, caught) ==
    /\ pc' = "done"
    /\ raised' = [exc |-> exc, in |-> stage, caught |-> caught]

(* variant: main opens responses.json for writing before it fetches *)
StartTruncating ==
    /\ pc \in {"idle", "done"}
    /\ pc' = "get_response"
    /\ args' \in CallerArgs
    /\ api_key_file' \in ApiKeyFiles
    /\ before' = Snapshot
    /\ responses_file' = ArchiveEmpty
    /\ response' = NoResponse
    /\ formatted_response' = Unset
    /\ image_urls' = <<>>
    /\ images' = <<>>
    /\ idx' = 0
    /\ raised' = NoException
    /\ log' = <<>>
    /\ UNCHANGED images_dir

(* a caller invokes main(date, start_date, end_date, count) *)
Start ==
    /\ pc \in {"idle", "done"}
    /\ pc' = "get_response"
    /\ args' \in CallerArgs
    /\ api_key_file' \in ApiKeyFiles
    /\ before' = Snapshot
    /\ response' = NoResponse
    /\ formatted_response' = Unset
    /\ image_urls' = <<>>
    /\ images' = <<>>
    /\ idx' = 0
    /\ raised' = NoException
    /\ log' = <<>>
    /\ UNCHANGED <<responses_file, images_dir>>

(* lines 34-39 and 82-109 *)
GetResponse ==
    /\ pc = "get_response"
    /\ LET key == read_api_key(api_key_file) IN
       IF key.exc # None
         THEN /\ Fail("get_response", key.exc, key.exc = "ValueError")
              /\ UNCHANGED <<response, log>>
         ELSE /\ log' = Append(log, ApiGet(request_url(key.api_key, args)))
              /\ \/ \E text \in Payloads :
                       /\ response' = text
                       /\ pc' = "format_response"
                       /\ UNCHANGED raised
                 \/ \E err \in {"HTTPError", "RequestException"} :
                       /\ Fail("get_response", "ValueError", TRUE)
                       /\ UNCHANGED response
    /\ UNCHANGED <<args, api_key_file, responses_file, images_dir,
                   formatted_response, image_urls, images, idx, before>>

(* line 40 *)
FormatResponse ==
    /\ pc = "format_response"
    /\ LET r == format_response(response) IN
       IF r.exc # None
         THEN /\ Fail("format_response", r.exc, FALSE)
              /\ UNCHANGED formatted_response
         ELSE /\ formatted_response' = r.value
              /\ pc' = "save_response"
              /\ UNCHANGED raised
    /\ UNCHANGED <<args, api_key_file, responses_file, images_dir, response,
                   image_urls, images, idx, log, before>>

(* line 41 *)
SaveResponse ==
    /\ pc = "save_response"
    /\ LET r == save_response(responses_file, formatted_response) IN
       IF r.exc # None
         THEN /\ Fail("save_response", r.exc, FALSE)
              /\ UNCHANGED <<responses_file, log>>
         ELSE /\ responses_file' = r.file
              /\ log' = Append(log, ArchiveWrite)
              /\ pc' = "get_image_urls"
              /\ UNCHANGED raised
    /\ UNCHANGED <<args, api_key_file, images_dir, response, formatted_response,
                   image_urls, images, idx, before>>

(* line 44 *)
GetImageUrls ==
    /\ pc = "get_image_urls"
    /\ LET r == get_image_urls(formatted_response) IN
       IF r.exc # None
         THEN /\ Fail("get_image_urls", r.exc, FALSE)
              /\ UNCHANGED <<image_urls, idx>>
         ELSE /\ image_urls' = r.value
              /\ idx' = 1
              /\ pc' = "get_images"
              /\ UNCHANGED raised
    /\ UNCHANGED <<args, api_key_file, responses_file, images_dir, response,
                   formatted_response, images, log, before>>

(* variant: each image is written to the directory as soon as it is fetched *)
GetImagesStepSaving ==
    /\ pc = "get_images"
    /\ idx <= Len(image_urls)
    /\ LET url == image_urls[idx]
           image_name == os_path_split(url)[2]
       IN
       IF os_path_exists(images_dir, image_name)
         THEN /\ idx' = idx + 1
              /\ UNCHANGED <<pc, images, raised, log, images_dir>>
         ELSE \/ /\ images' = Append(images, <<image_name, [from |-> url]>>)
                 /\ images_dir' = [n \in DOMAIN images_dir \cup {image_name} |->
                                     IF n = image_name THEN [from |-> url] ELSE images_dir[n]]
                 /\ log' = log \o <<ImageGet(url), ImageWrite(image_name)>>
                 /\ idx' = idx + 1
                 /\ UNCHANGED <<pc, raised>>
              \/ \E err \in {"HTTPError", "RequestException"} :
                    /\ log' = Append(log, ImageGet(url))
                    /\ Fail("get_images", "ValueError", FALSE)
                    /\ UNCHANGED <<images, idx, images_dir>>
    /\ UNCHANGED <<args, api_key_file, responses_file, response,
                   formatted_response, image_urls, before>>

(* lines 188-202: one iteration of the loop of get_images *)
GetImagesStep ==
    /\ pc = "get_images"
    /\ idx <= Len(image_urls)
    /\ LET url == image_urls[idx]
           image_name == os_path_split(url)[2]
       IN
       IF os_path_exists(images_dir, image_name)
         THEN /\ idx' = idx + 1
              /\ UNCHANGED <<pc, images, raised, log>>
         ELSE /\ log' = Append(log, ImageGet(url))
              /\ \/ /\ images' = Append(images, <<image_name, Content(url)>>)
                    /\ idx' = idx + 1
                    /\ UNCHANGED <<pc, raised>>
                 \/ \E err \in {"HTTPError", "RequestException"} :
                       /\ Fail("get_images", "ValueError", FALSE)
                       /\ UNCHANGED <<images, idx>>
    /\ UNCHANGED <<args, api_key_file, responses_file, images_dir, response,
                   formatted_response, image_urls, before>>

(* line 204 and lines 46-53: get_images returns; main saves or reports *)
GetImagesReturn ==
    /\ pc = "get_images"
    /\ idx > Len(image_urls)
    /\ IF Len(images) > 0
         THEN /\ pc' = "save_images"
              /\ idx' = 1
              /\ UNCHANGED log
         ELSE /\ pc' = "done"
              /\ log' = Append(log, NothingToSave)
              /\ UNCHANGED idx
    /\ UNCHANGED <<args, api_key_file, responses_file, images_dir, response,
                   formatted_response, image_urls, images, raised, before>>

(* open(image_filename, "wb") and write *)
write_image(dir, image_name, content) ==
    [n \in DOMAIN dir \cup {image_name} |->
        IF n = image_name THEN content ELSE dir[n]]

(* lines 214-221: one iteration of the loop of save_images *)
SaveImagesStep ==
    /\ pc = "save_images"
    /\ idx <= Len(images)
    /\ images_dir' = write_image(images_dir, images[idx][1], images[idx][2])
    /\ log' = Append(log, ImageWrite(images[idx][1]))
    /\ idx' = idx + 1
    /\ UNCHANGED <<pc, args, api_key_file, responses_file, response,
                   formatted_response, image_urls, images, raised, before>>

(* line 222 and lines 51-53 *)
SaveImagesReturn ==
    /\ pc = "save_images"
    /\ idx > Len(images)
    /\ pc' = "done"
    /\ UNCHANGED <<args, api_key_file, responses_file, images_dir, response,
                   formatted_response, image_urls, images, idx, raised, log, before>>

Next ==
    \/ Start
    \/ GetResponse
    \/ FormatResponse
    \/ SaveResponse
    \/ GetImageUrls
    \/ GetImagesStep
    \/ GetImagesReturn
    \/ SaveImagesStep
    \/ SaveImagesReturn

Spec == Init /\ [][Next]_vars

(***************************************************************************)
(* save_response on its own: any archive file, any batch, called twice     *)
(* with the same batch.  idx counts the calls that returned.               *)
(***************************************************************************)
ArchiveFiles ==
    {ArchiveAbsent, ArchiveEmpty, ArchiveCorrupt}
    \cup {json_dump(e) : e \in SeqsUpTo(Records, MaxArchive)}

InitMerge ==
    /\ pc = "merge"
    /\ args = ArgNone
    /\ api_key_file = [state |-> "file", lines |-> <<KeyLine>>]
    /\ responses_file \in ArchiveFiles
    /\ images_dir = <<>>
    /\ response = NoResponse
    /\ formatted_response \in {[type |-> "list", val |-> b] : b \in Batches}
    /\ image_urls = <<>>
    /\ images = <<>>
    /\ idx = 0
    /\ raised = NoException
    /\ log = <<>>
    /\ before = Snapshot

(* save_response(formatted_response), lines 129-153 *)
Merge ==
    /\ pc = "merge"
    /\ idx < 2
    /\ before' = Snapshot
    /\ LET r == save_response(responses_file, formatted_response) IN
       IF r.exc # None
         THEN /\ Fail("save_response", r.exc, FALSE)
              /\ UNCHANGED <<responses_file, log, idx>>
         ELSE /\ responses_file' = r.file
              /\ log' = Append(log, ArchiveWrite)
              /\ idx' = idx + 1
              /\ UNCHANGED <<pc, raised>>
    /\ UNCHANGED <<args, api_key_file, images_dir, response, formatted_response,
                   image_urls, images>>

NextMerge == Merge

SpecMerge == InitMerge /\ [][NextMerge]_vars

(***************************************************************************)
(* get_response on its own: every combination of the four parameters       *)
(***************************************************************************)
AllArgs ==
    [date : {None, "", "2020-01-01"},
     start_date : {None, "", "2020-01-03"},
     end_date : {None, "", "2020-01-05"},
     count : {None, "", "2"}]

InitUrl ==
    /\ pc = "get_response"
    /\ args \in AllArgs
    /\ api_key_file \in ApiKeyFiles
    /\ responses_file = ArchiveEmpty
    /\ images_dir = <<>>
    /\ Locals0
    /\ before = Snapshot

NextUrl == GetResponse

SpecUrl == InitUrl /\ [][NextUrl]_vars

(***************************************************************************)
(* Properties                                                              *)
(***************************************************************************)
Dated(s) == \A i \in 1..Len(s) : HasDate(s[i])

(* the records save_response starts from: what the file held before the call *)
Existing(file) == IF file.kind = "json" THEN file.val ELSE <<>>

LastSegment(url) == url[Len(url)]

Occurrences(s, r) == Cardinality({i \in 1..Len(s) : s[i] = r})

ImageGets == {i \in 1..Len(log) : log[i].op = "GET" /\ log[i].what = "image"}
ImageWrites == {i \in 1..Len(log) : log[i].op = "write" /\ log[i].what = "image"}
ArchiveWrites == {i \in 1..Len(log) : log[i] = ArchiveWrite}
ApiGets == {i \in 1..Len(log) : log[i].op = "GET" /\ log[i].what = "api"}

(* C1 (SpecMerge): a second save_response with the same batch on the archive
   the first one produced leaves the archive exactly as the first one left
   it (same records, same order), and it cannot fail where the first did
   not. *)
C1_IdempotentMerge ==
    /\ idx = 2 => responses_file = before.responses_file
    /\ pc = "done" => idx = 0

C1_Witness ==
    /\ idx = 2
    /\ Len(Existing(before.responses_file)) >= 2
    /\ Len(formatted_response.val) >= 2
    /\ \E i, j \in 1..Len(formatted_response.val) :
          /\ i < j
          /\ formatted_response.val[i].date > formatted_response.val[j].date

(* C2 (Spec): whatever runs have completed since the archive file was empty,
   the dates of the records in responses.json are non-decreasing in sequence
   order. *)
C2_SortInvariant ==
    responses_file.kind = "json" =>
        /\ Dated(responses_file.val)
        /\ \A i, j \in 1..Len(responses_file.val) :
              i < j => responses_file.val[i].date <= responses_file.val[j].date

C2_Witness ==
    /\ pc = "done"
    /\ raised = NoException
    /\ before.responses_file.kind = "json"
    /\ Len(before.responses_file.val) >= 1
    /\ Len(responses_file.val) >= 3
    /\ formatted_response.type = "list"
    /\ Len(formatted_response.val) = 2
    /\ formatted_response.val[1].date > before.responses_file.val[1].date
    /\ formatted_response.val[2].date < formatted_response.val[1].date

(* C3 (SpecMerge): after save_response the archive holds every structurally
   distinct record of existing ++ incoming exactly once and nothing else, so
   records that share a date and differ elsewhere are all kept. *)
C3_DedupWholeRecord ==
    (idx >= 1 /\ pc = "merge") =>
        LET all == Existing(before.responses_file) \o formatted_response.val
            kept == responses_file.val
        IN /\ Range(kept) = Range(all)
           /\ \A r \in Range(all) : Occurrences(kept, r) = 1

C3_Witness ==
    /\ idx = 1
    /\ LET all == Existing(before.responses_file) \o formatted_response.val
           kept == responses_file.val
       IN /\ Len(kept) < Len(all)
          /\ \E i, j \in 1..Len(kept) :
                kept[i] # kept[j] /\ kept[i].date = kept[j].date

(* C4 (Spec): when responses.json is non-empty and not JSON, save_response
   raises, the file stays as it was, and the run ends there: no image is
   requested and no image file is written. *)
C4_CorruptArchive ==
    (before.responses_file = ArchiveCorrupt /\ formatted_response # Unset
        /\ pc # "save_response") =>
        /\ pc = "done"
        /\ raised.exc = "JSONDecodeError" /\ raised.in = "save_response"
        /\ responses_file = ArchiveCorrupt
        /\ images_dir = before.images_dir
        /\ ArchiveWrites = {} /\ ImageGets = {} /\ ImageWrites = {}

C4_Witness ==
    /\ before.responses_file = ArchiveCorrupt
    /\ pc = "done"
    /\ raised.exc = "JSONDecodeError" /\ raised.in = "save_response"
    /\ formatted_response.type = "list"
    /\ Len(formatted_response.val) >= 1
    /\ "url" \in DOMAIN formatted_response.val[1]

(* C5 (SpecMerge): if responses.json is empty or absent, save_response
   raises nothing and writes exactly the sorted, deduplicated incoming
   batch. *)
C5_EmptyOrAbsentArchive ==
    (before.responses_file.kind \in {"empty", "absent"}
        /\ (idx = 1 \/ pc = "done") /\ Dated(formatted_response.val)) =>
        /\ raised = NoException
        /\ responses_file =
              json_dump(filter_duplicates(sort_by_date(formatted_response.val), <<>>))

(* C6 (Spec): get_images issues no request and adds no entry for a URL whose
   file name is already in the image directory; when every candidate is
   already there it returns an empty list, nothing is raised and the run
   reports "Nothing to save". *)
C6_DownloadSkip ==
    /\ pc = "get_images" =>
          /\ \A i \in ImageGets : LastSegment(log[i].url) \notin DOMAIN images_dir
          /\ \A i \in 1..Len(images) : images[i][1] \notin DOMAIN images_dir
    /\ (pc = "done" /\ raised.exc = None
          /\ \A i \in 1..Len(image_urls) :
                LastSegment(image_urls[i]) \in DOMAIN before.images_dir) =>
          /\ images = <<>>
          /\ ImageGets = {}
          /\ log[Len(log)] = NothingToSave
          /\ images_dir = before.images_dir

C6_Witness ==
    /\ pc = "done"
    /\ raised.exc = None
    /\ Len(image_urls) = 2
    /\ image_urls[1] # image_urls[2]
    /\ \A i \in 1..Len(image_urls) :
          LastSegment(image_urls[i]) \in DOMAIN before.images_dir
    /\ log[Len(log)] = NothingToSave

(* an argument is supplied when it is neither None nor the empty string (the
   value the command line gives an omitted option) *)
Supplied(v) == v # None /\ v # ""

Modes == {"date", "start_date", "count"}

(* C7 (SpecUrl): the request URL carries the modifier of the highest-priority
   supplied mode (date, then start_date/end_date, then count) and of no other
   mode, hence none when no mode is supplied; end_date appears only next to
   start_date, and a lone end_date gives the URL of a call without
   parameters. *)
C7_QueryPriority ==
    \A i \in ApiGets :
        LET q == log[i].url.query
            names == {q[j][1] : j \in 1..Len(q)}
            supplied == {m \in Modes : Supplied(args[m])}
        IN /\ Len(q) = Cardinality(names)
           /\ Cardinality(names \cap Modes) = (IF supplied = {} THEN 0 ELSE 1)
           /\ names \cap Modes =
                 (IF "date" \in supplied THEN {"date"}
                  ELSE IF "start_date" \in supplied THEN {"start_date"}
                  ELSE supplied)
           /\ "end_date" \in names <=>
                 ("start_date" \in names /\ Supplied(args.end_date))
           /\ \A j \in 1..Len(q) : q[j][2] = args[q[j][1]]
           /\ supplied = {} => q = <<>>

C7_Witness ==
    /\ ApiGets # {}
    /\ Supplied(args.date) /\ Supplied(args.start_date)
    /\ Supplied(args.end_date) /\ Supplied(args.count)
    /\ log[1].url.query = << <<"date", args.date>> >>

(* C8 (Spec): format_response wraps a single object in a one-element list,
   returns a list unchanged, and fails when the text is not JSON or the
   parsed value is neither an object nor a list. *)
C8_Normalizer ==
    (response # NoResponse /\ pc # "format_response") =>
        IF response.kind = "object"
          THEN formatted_response = [type |-> "list", val |-> <<response.val>>]
        ELSE IF response.kind = "array"
          THEN formatted_response = [type |-> "list", val |-> response.val]
        ELSE /\ pc = "done"
             /\ raised.exc # None
             /\ raised.in = "format_response"

NoKeyConfigured(key_file) ==
    \/ key_file.state \in {"absent", "unreadable"}
    \/ /\ key_file.state = "file"
       /\ \/ Len(key_file.lines) = 0
          \/ key_file.lines[1].text = ""

(* C9 (Spec): when no key is configured (key file absent, unreadable, empty,
   or with a blank first line) get_response fails and issues no HTTP
   request. *)
C9_ApiKeyPrecondition ==
    (pc \notin {"idle", "get_response"} /\ NoKeyConfigured(api_key_file)) =>
        /\ pc = "done"
        /\ raised.exc # None
        /\ raised.in = "get_response"
        /\ ApiGets = {}

(* C10 (Spec): responses.json is written only after the API request was made
   and format_response returned; a run that get_response or format_response
   ends leaves responses.json and the image directory as they were and
   requests no image. *)
C10_PersistAfterFetch ==
    /\ \A i \in ArchiveWrites :
          /\ \E j \in ApiGets : j < i
          /\ response # NoResponse
          /\ formatted_response # Unset
    /\ responses_file # before.responses_file => ArchiveWrites # {}
    /\ (pc = "done" /\ raised.exc # None
          /\ raised.in \in {"get_response", "format_response"}) =>
          /\ responses_file = before.responses_file
          /\ images_dir = before.images_dir
          /\ ArchiveWrites = {} /\ ImageGets = {} /\ ImageWrites = {}

C10_Witness ==
    /\ pc = "done"
    /\ raised.exc # None
    /\ raised.in = "format_response"
    /\ before.responses_file.kind = "json"
    /\ Len(before.responses_file.val) >= 2
    /\ DOMAIN before.images_dir # {}

(* C11 (Spec): in a run no file name is requested twice and none is written
   twice, and a file that was in the image directory when the run began is
   neither requested nor written and keeps its content; so over any
   sequence of runs a file, once there, is never overwritten. *)
C11_AtMostOncePerFilename ==
    /\ \A i, j \in ImageGets :
          i # j => LastSegment(log[i].url) # LastSegment(log[j].url)
    /\ \A i, j \in ImageWrites : i # j => log[i].name # log[j].name
    /\ \A n \in DOMAIN before.images_dir :
          /\ n \in DOMAIN images_dir
          /\ images_dir[n] = before.images_dir[n]
          /\ \A i \in ImageGets : LastSegment(log[i].url) # n
          /\ \A i \in ImageWrites : log[i].name # n

(* the records of the batch that get_image_urls went through *)
LacksBoth(r) == "hdurl" \notin DOMAIN r /\ "url" \notin DOMAIN r

ImageStageEntered == ArchiveWrites # {} /\ pc # "get_image_urls"

(* C12 (Spec): get_image_urls takes `hdurl` of a record that has it and `url`
   otherwise; a record with neither ends the run with an error before any
   image of the batch, also of the records in front of it, is requested or
   written. *)
C12_ImageUrlSelection ==
    ImageStageEntered =>
        LET batch == formatted_response.val IN
        IF \E i \in 1..Len(batch) : LacksBoth(batch[i])
          THEN /\ pc = "done"
               /\ raised.exc # None
               /\ raised.in = "get_image_urls"
               /\ ImageGets = {} /\ ImageWrites = {}
               /\ images_dir = before.images_dir
          ELSE /\ Len(image_urls) = Len(batch)
               /\ \A i \in 1..Len(batch) :
                     image_urls[i] = (IF "hdurl" \in DOMAIN batch[i]
                                        THEN batch[i].hdurl ELSE batch[i].url)

C12_Witness ==
    /\ ImageStageEntered
    /\ pc = "done"
    /\ raised.exc = "KeyError"
    /\ Len(formatted_response.val) = 2
    /\ "hdurl" \in DOMAIN formatted_response.val[1]
    /\ "url" \in DOMAIN formatted_response.val[1]
    /\ LastSegment(formatted_response.val[1].hdurl) \notin DOMAIN images_dir
    /\ LacksBoth(formatted_response.val[2])

(* C13 (Spec): in a run every image request precedes the first image write;
   a run that a failed image request ends leaves the image directory as it
   was before the run, while responses.json already holds the records of
   the batch. *)
C13_FetchAllBeforeWrite ==
    /\ \A i \in ImageGets : \A j \in ImageWrites : i < j
    /\ (pc = "done" /\ raised.exc # None /\ raised.in = "get_images") =>
          /\ images_dir = before.images_dir
          /\ ImageWrites = {}
          /\ responses_file.kind = "json"
          /\ Range(formatted_response.val) \subseteq Range(responses_file.val)

C13_Witness ==
    /\ pc = "done"
    /\ raised.exc # None
    /\ raised.in = "get_images"
    /\ Len(images) >= 1
    /\ Cardinality(ImageGets) = 2
    /\ images[1][1] \notin DOMAIN images_dir
    /\ Range(formatted_response.val) \subseteq Range(responses_file.val)
    /\ responses_file # before.responses_file

====
